---- MODULE Spec2Model ----
(***************************************************************************)
(* The GameBoy MCP server: one GameBoyEmulator, the EmulatorService around *)
(* it, and the command handlers that drive it (POST /api/tool, GET         *)
(* /screen, GET /api/advance_and_get_screen, the MCP tools).               *)
(*                                                                         *)
(* Every handler is a straight-line program of emulator operations.  The   *)
(* JavaScript runtime runs one task at a time: `cur` is the command whose  *)
(* code is on the stack, and another command starts or resumes only when   *)
(* the running one has finished or has reached an await.                   *)
(*                                                                         *)
(* A JSON number is kept in half units (h = 2 * value), so that 1.5 is the *)
(* integer 3 and the comparisons and loops of the code are exact.          *)
(***************************************************************************)
EXTENDS Integers, Sequences, FiniteSets, TLC

\* ------------------------------------------------------------------ bounds
MaxInFlight == 2
MaxFrames == 11
MaxDur == 3
MaxSessions == 2
MaxPosts == 1
MaxEntries == 3
MaxCycles == 4

\* ------------------------------------------------------- program constants
WarmupFrames == 5
DefaultWaitFrames == 100
DefaultPressFrames == 1
AutoPlayDelay == 17
IdleDelay == 100

VARIABLES romLoaded, romPath, gameboy, slots, cur, lastShot,
          chans, transports, connected, owner, httpResp,
          stdio, roms, page

\* the emulator and the commands that drive it
coreVars == <<romLoaded, romPath, gameboy, slots, cur, lastShot>>

\* the SSE server's part of the state: the channels opened by GET /mcp, the
\* registry of transports, the transport the MCP server is connected to, the
\* command the server is working on, and the answer to the last POST /messages
sseVars == <<chans, transports, connected, owner, httpResp>>

\* the start-up of the stdio server, the roms directory with the answer to
\* the last GET /api/roms, and the polling script of the emulator page
auxVars == <<stdio, roms, page>>

vars == <<romLoaded, romPath, gameboy, slots, cur, lastShot,
          chans, transports, connected, owner, httpResp,
          stdio, roms, page>>

\* ------------------------------------------------------------ value domains
Undefined == "<undefined>"

\* enum GameBoyButton
GameBoyButton == {"UP", "DOWN", "LEFT", "RIGHT", "A", "B", "START", "SELECT"}

\* The files the requests name: two ROM images, a directory (it exists but
\* cannot be read as a file) and a name that does not exist.
Paths == {"a.gb", "b.gb", "roms", "nofile.gb"}

\* path.resolve(process.cwd(), p) for a relative path p
Resolve(p) == "/cwd/" \o p

\* what the file system holds under a path, relative to the working
\* directory or resolved against it
FileKind(p) ==
  CASE p \in {"a.gb", "b.gb", Resolve("a.gb"), Resolve("b.gb")} -> "rom"
    [] p \in {"roms", Resolve("roms")} -> "unreadable"
    [] OTHER -> "missing"

\* a check that finds every file
ExistsSyncAlways(p) == TRUE

\* fs.existsSync
ExistsSync(p) == FileKind(p) # "missing"

\* JSON values of params.duration_frames: absent, a string, or a number
NoDur == [t |-> "undefined", h |-> 0]
StrDur == [t |-> "string", h |-> 0]
Num(h) == [t |-> "number", h |-> h]
Whole(n) == Num(2 * n)
DurValues == {NoDur, StrDur} \cup {Num(h) : h \in (-2)..(2 * MaxDur)}

\* String.prototype.toUpperCase / toLowerCase on the names that occur
ToUpperCase(s) ==
  CASE s \in {"up", "UP", "Up"} -> "UP"
    [] s \in {"down", "DOWN"} -> "DOWN"
    [] s \in {"left", "LEFT"} -> "LEFT"
    [] s \in {"right", "RIGHT"} -> "RIGHT"
    [] s \in {"a", "A"} -> "A"
    [] s \in {"b", "B"} -> "B"
    [] s \in {"start", "START"} -> "START"
    [] s \in {"select", "SELECT"} -> "SELECT"
    [] s = "x" -> "X"
    [] OTHER -> s

ToLowerCase(s) ==
  CASE s = "UP" -> "up"
    [] s = "DOWN" -> "down"
    [] s = "LEFT" -> "left"
    [] s = "RIGHT" -> "right"
    [] s = "A" -> "a"
    [] s = "B" -> "b"
    [] s = "START" -> "start"
    [] s = "SELECT" -> "select"
    [] OTHER -> s

\* what can follow "press_" in a tool name
Suffixes == {"up", "down", "left", "right", "a", "b", "start", "select",
             "A", "Up", "x", ""}

PressNames == {"press_" \o s : s \in Suffixes}

\* JSON values of tool that are no strings: a number other than 0, such as
\* 5, and an object whose toString and valueOf are no functions, such as
\* {"toString": 1, "valueOf": 1}
NumberTool == "<number>"
NoPrimitiveTool == "<no primitive>"

\* tool.startsWith('press_')
StartsWithPress(tool) == tool \in PressNames

\* tool.replace('press_', '')
ReplacePress(tool) == CHOOSE s \in Suffixes : tool = "press_" \o s

\* ------------------------------------------------------------- the engine
\* The screen the codec encodes is a function of the engine state.
Snapshot(gb) == [rom |-> gb.rom, frames |-> gb.frames]
NoShot == [rom |-> "", frames |-> -1]

\* -------------------------------------------------- programs of operations
\* An operation of a handler: what it calls, its argument, and the service
\* method whose try block encloses it ("" when none).
Op(o, a, in) == [op |-> o, arg |-> a, in |-> in]

Frames(n, in) == [i \in 1..n |-> Op("doFrame", "", in)]

\* the loop with  i <= d  for its test
IterationsInclusive(h) == IF h < 0 THEN 0 ELSE h \div 2 + 1

\* the loop as a do-while, which runs its body once before the test
IterationsDoWhile(h) == IF h <= 0 THEN 1 ELSE (h + 1) \div 2

\* iterations of  for (let i = 0; i < d; i++)  for the number d = h / 2
Iterations(h) == IF h <= 0 THEN 0 ELSE (h + 1) \div 2

\* EmulatorService.getScreen
SvcGetScreen(in) ==
  <<Op("isRomLoaded", "", in), Op("getScreenAsBase64", "", in)>>

\* EmulatorService.loadRom
SvcLoadRom(p) ==
  <<Op("existsSync", p, ""), Op("loadRom", p, "loadRom")>>
    \o Frames(WarmupFrames, "loadRom") \o SvcGetScreen("loadRom")

\* EmulatorService.pressButton
SvcPressButton(b) ==
  <<Op("isRomLoaded", "", ""), Op("pressButton", b, "")>> \o SvcGetScreen("")

\* EmulatorService.waitFrames
SvcWaitFrames(h) ==
  <<Op("isRomLoaded", "", "")>> \o Frames(Iterations(h), "") \o SvcGetScreen("")

\* EmulatorService.advanceFrameAndGetScreen
SvcAdvanceFrameAndGetScreen ==
  <<Op("isRomLoaded", "", ""), Op("doFrame", "", "")>> \o SvcGetScreen("")

\* a check that always passes
IsRomLoadedAlways(e) == TRUE

\* GameBoyEmulator.isRomLoaded, which EmulatorService.isRomLoaded passes on
IsRomLoaded(e) == e.romLoaded

\* ---------------------------------------------------------------- requests
Req(chan, tool, p, d, b) ==
  [chan |-> chan, tool |-> tool, romPath |-> p, dur |-> d, button |-> b]
NoReq == Req("none", "", Undefined, NoDur, "")

NoResp == [status |-> -1, error |-> <<>>, content |-> <<>>]
\* res.redirect(to)
Redirect(to) == [status |-> 302, error |-> <<>>, content |-> <<[location |-> to]>>]
Reply(status, msg) == [status |-> status, error |-> msg, content |-> <<>>]
Content(shot) == [status |-> 200, error |-> <<>>, content |-> <<shot>>]

\* what a handler decides before its first emulator operation: an immediate
\* reply, or the program it goes on to run, or an exception it throws
\* outside every try block
Answer(resp) == [reply |-> resp, prog |-> <<>>, escaped |-> ""]
Run(prog) == [reply |-> NoResp, prog |-> prog, escaped |-> ""]
Escape(msg) == [reply |-> NoResp, prog |-> <<>>, escaped |-> msg]

\* The promise of an async handler that throws is rejected.  What becomes of
\* it is decided by the express and node versions installed, which the
\* repository does not fix: the rejection is ignored and the request is
\* never answered, or it ends the process, or express answers in the
\* handler's place with its error page.
Escaped(s, msg) ==
  {[s EXCEPT !.st = "unanswered", !.thrown = msg],
   [s EXCEPT !.st = "crashed", !.thrown = msg],
   [s EXCEPT !.st = "failed", !.thrown = msg,
             !.resp = [status |-> 500, error |-> <<>>, content |-> <<>>]]}

\* typeof d !== 'number' || d <= 0
InvalidDuration(d) == d.t # "number" \/ d.h <= 0

\* params?.duration_frames ?? dflt
OrDefault(d, dflt) == IF d.t = "undefined" THEN Whole(dflt) ELSE d

\* !params || !params.romPath
NoRomPath(p) == p = Undefined \/ p = ""

\* apiToolHandler, POST /api/tool
ApiTool(req, loaded) ==
  LET tool == req.tool
      dw == OrDefault(req.dur, DefaultWaitFrames)
      dp == OrDefault(req.dur, DefaultPressFrames)
      buttonName == ToUpperCase(ReplacePress(tool))
  IN  IF tool = NoPrimitiveTool
        THEN Escape("Cannot convert object to primitive value")
      ELSE IF tool = Undefined \/ tool = ""
        THEN Answer(Reply(400, <<"Tool name is required">>))
      ELSE IF ~loaded /\ tool # "load_rom"
        THEN Answer(Reply(400, <<"No ROM loaded">>))
      ELSE IF tool = "get_screen"
        THEN Run(SvcGetScreen(""))
      ELSE IF tool = "load_rom"
        THEN IF NoRomPath(req.romPath)
               THEN Answer(Reply(400, <<"ROM path is required">>))
               ELSE Run(SvcLoadRom(req.romPath))
      ELSE IF tool = "wait_frames"
        THEN IF InvalidDuration(dw)
               THEN Answer(Reply(400, <<"Invalid duration_frames">>))
               ELSE Run(SvcWaitFrames(dw.h))
      ELSE IF tool = NumberTool
        THEN Run(<<Op("throw", "tool.startsWith is not a function", "")>>)
      ELSE IF StartsWithPress(tool)
        THEN IF buttonName \notin GameBoyButton
               THEN Answer(Reply(400, <<"Invalid button", buttonName>>))
             ELSE IF InvalidDuration(dp)
               THEN Answer(Reply(400, <<"Invalid duration_frames for press">>))
             ELSE Run(SvcPressButton(buttonName)
                      \o (IF dp.h > 2 THEN SvcWaitFrames(dp.h - 2) ELSE <<>>)
                      \o SvcGetScreen(""))
      ELSE Answer(Reply(400, <<"Unknown tool", tool>>))

\* screenHandler, GET /screen
ScreenHandler(loaded) ==
  IF ~loaded THEN Answer(Reply(400, <<"No ROM loaded">>))
  ELSE Run(SvcGetScreen(""))

\* advanceAndGetScreenHandler, GET /api/advance_and_get_screen
AdvanceAndGetScreenHandler(loaded) ==
  IF ~loaded THEN Answer(Reply(400, <<"No ROM loaded">>))
  ELSE Run(SvcAdvanceFrameAndGetScreen)

\* registerGameBoyTools: the tool callbacks of the MCP server.  A callback is
\* an async function, so its result reaches the transport in a later task.
McpPressNames == {"press_" \o ToLowerCase(b) : b \in GameBoyButton}

\* a registry whose press tools all press A
McpButtonA(tool) == "A"

McpButton(tool) == CHOOSE b \in GameBoyButton : tool = "press_" \o ToLowerCase(b)

McpTool(req) ==
  LET tool == req.tool
      return == <<Op("return", "", "")>>
  IN  IF tool \in McpPressNames
        THEN Run(<<Op("isRomLoaded", "", ""), Op("pressButton", McpButton(tool), ""),
                   Op("getScreenAsBase64", "", "")>> \o return)
      ELSE IF tool = "load_rom"
        THEN IF req.romPath = Undefined
               THEN Answer(Reply(0, <<"Invalid arguments">>))
               ELSE Run(<<Op("loadRom", req.romPath, "")>> \o Frames(WarmupFrames, "")
                        \o <<Op("getScreenAsBase64", "", "")>> \o return)
      ELSE IF tool = "get_screen"
        THEN Run(<<Op("isRomLoaded", "", ""), Op("doFrame", "", ""),
                   Op("getScreenAsBase64", "", "")>> \o return)
      ELSE Answer(Reply(0, <<"Tool not found", tool>>))

\* what calling a method the object does not have throws
NotAFunction(method) == "emulator." \o method \o " is not a function"

\* registerGameBoyTools with an EmulatorService for its emulator, as
\* createGameBoyServer(emulatorService) of the stdio entry point and of the
\* SSE entry point with the ROM pages registers the tools.  The callbacks
\* were written for a GameBoyEmulator: isRomLoaded, pressButton and loadRom
\* are those of the service, and the service has no doFrame and no
\* getScreenAsBase64, so every callback that gets that far throws.
McpToolOnService(req) ==
  LET tool == req.tool
      return == <<Op("return", "", "")>>
  IN  IF tool \in McpPressNames
        THEN Run(<<Op("isRomLoaded", "", "")>> \o SvcPressButton(McpButton(tool))
                 \o <<Op("throw", NotAFunction("getScreenAsBase64"), "")>> \o return)
      ELSE IF tool = "load_rom"
        THEN IF req.romPath = Undefined
               THEN Answer(Reply(0, <<"Invalid arguments">>))
               ELSE Run(SvcLoadRom(req.romPath)
                        \o <<Op("throw", NotAFunction("doFrame"), "")>> \o return)
      ELSE IF tool = "get_screen"
        THEN Run(<<Op("isRomLoaded", "", ""),
                   Op("throw", NotAFunction("doFrame"), "")>> \o return)
      ELSE Answer(Reply(0, <<"Tool not found", tool>>))

\* a direct call of a method of EmulatorService, as the /gameboy routes and
\* the start-up code make
SvcCall(req) ==
  CASE req.tool = "loadRom" -> Run(SvcLoadRom(req.romPath))
    [] req.tool = "pressButton" -> Run(SvcPressButton(req.button))
    [] req.tool = "waitFrames" -> Run(SvcWaitFrames(req.dur.h))
    [] req.tool = "getScreen" -> Run(SvcGetScreen(""))
    [] req.tool = "advanceFrameAndGetScreen" -> Run(SvcAdvanceFrameAndGetScreen)

\* POST /mcp/tool of createApiRoutes, on the emulator itself
McpToolRoute(req, loaded) ==
  LET tool == req.tool
      noRom == Answer(Reply(400, <<"No ROM loaded">>))
  IN  IF tool = Undefined \/ tool = ""
        THEN Answer(Reply(400, <<"Tool name is required">>))
      ELSE IF tool = "get_screen"
        THEN IF ~loaded THEN noRom
             ELSE Run(<<Op("doFrame", "", ""), Op("getScreenAsBase64", "", "")>>)
      ELSE IF tool = "load_rom"
        THEN IF NoRomPath(req.romPath)
               THEN Answer(Reply(400, <<"ROM path is required">>))
               ELSE Run(<<Op("loadRom", req.romPath, "")>> \o Frames(WarmupFrames, "")
                        \o <<Op("getScreenAsBase64", "", "")>>)
      ELSE IF StartsWithPress(tool)
        THEN IF ~loaded THEN noRom
             ELSE Run(<<Op("pressButton", ToUpperCase(ReplacePress(tool)), ""),
                        Op("getScreenAsBase64", "", "")>>)
      ELSE Answer(Reply(400, <<"Unknown tool", tool>>))

\* GET /gameboy?rom=<path> of the stdio server: it loads the ROM chosen on
\* the selection page
GameboyRoute(req) ==
  LET relativeRomPath == req.romPath
      absoluteRomPath == Resolve(relativeRomPath)
  IN  IF NoRomPath(relativeRomPath) THEN Answer(Redirect("/"))
      ELSE IF ~ExistsSync(absoluteRomPath)
        THEN Answer(Reply(404, <<"ROM not found", relativeRomPath>>))
      ELSE Run(SvcLoadRom(absoluteRomPath))

\* the handler of the channel a request came in on
Dispatch(req, loaded) ==
  CASE req.chan = "api" -> ApiTool(req, loaded)
    [] req.chan = "svc" -> SvcCall(req)
    [] req.chan = "screen" -> ScreenHandler(loaded)
    [] req.chan = "advance" -> AdvanceAndGetScreenHandler(loaded)
    [] req.chan = "mcp" -> McpTool(req)
    [] req.chan = "mcpsvc" -> McpToolOnService(req)
    [] req.chan = "mcptool" -> McpToolRoute(req, loaded)
    [] req.chan = "gameboy" -> GameboyRoute(req)

\* GET /api/status: isRomLoaded() and getRomPath() of the service, which are
\* those of the emulator
StatusHandler(e) ==
  Answer([status |-> 200, error |-> <<>>,
          content |-> <<[romLoaded |-> e.romLoaded, romPath |-> e.romPath]>>])

\* the handler of a request, on the emulator as it is when the request arrives
Handle(req, e) ==
  IF req.chan = "status" THEN StatusHandler(e) ELSE Dispatch(req, IsRomLoaded(e))

\* the response a handler sends once its program has ended: the last screen
\* it read, or what its catch block makes of the exception
ResponseOf(chan, thrown, val) ==
  CASE chan \in {"api", "mcptool"} ->
         IF thrown # "" THEN Reply(500, <<"Failed to call tool", thrown>>)
         ELSE Content(val)
    [] chan = "screen" ->
         IF thrown # "" THEN Reply(500, <<"Error getting screen">>)
         ELSE Content(val)
    [] chan = "advance" ->
         IF thrown # "" THEN Reply(500, <<"Error advancing frame and getting screen">>)
         ELSE Content(val)
    [] chan = "gameboy" ->
         IF thrown # "" THEN Reply(500, <<"Error loading ROM">>)
         ELSE Redirect("/emulator")
    [] chan \in {"mcp", "mcpsvc", "svc"} ->
         IF thrown # "" THEN Reply(0, <<thrown>>)
         ELSE [status |-> 0, error |-> <<>>, content |-> <<val>>]

\* ------------------------------------------------------- GameBoyEmulator
\* The emulator object: its two fields and the engine it owns.
Emu(l, p, gb) == [romLoaded |-> l, romPath |-> p, gameboy |-> gb]

\* An event of the engine: a ROM load, one frame step with the keys pressed
\* for it, or a read of the screen.
Ev(o, a) == [op |-> o, arg |-> a]

Ok(e, val, ev) == [e |-> e, thrown |-> "", val |-> val, ev |-> ev]
Throw(e, msg) == [e |-> e, thrown |-> msg, val |-> NoShot, ev |-> <<>>]

\* a load that unloads the ROM when it fails
LoadRomUnloads(e, p) ==
  IF FileKind(p) = "rom"
    THEN Ok(Emu(TRUE, p, [e.gameboy EXCEPT !.rom = p]), NoShot, <<Ev("loadRom", p)>>)
    ELSE Throw(Emu(FALSE, Undefined, e.gameboy), "Failed to load ROM")

\* a load that forgets to record the path
LoadRomKeepsPath(e, p) ==
  IF FileKind(p) = "rom"
    THEN Ok(Emu(TRUE, e.romPath, [e.gameboy EXCEPT !.rom = p]), NoShot, <<Ev("loadRom", p)>>)
    ELSE Throw(e, "Failed to load ROM")

\* GameBoyEmulator.loadRom
LoadRom(e, p) ==
  IF FileKind(p) = "rom"
    THEN Ok(Emu(TRUE, p, [e.gameboy EXCEPT !.rom = p]), NoShot, <<Ev("loadRom", p)>>)
    ELSE Throw(e, "Failed to load ROM")

\* buttonMap[button]: the key of a button, undefined for any other string
ButtonMap(button) == IF button \in GameBoyButton THEN button ELSE Undefined

\* a press that sets the keys and leaves the frame to the caller
PressButtonKeysOnly(e, button, fault) ==
  IF ~e.romLoaded THEN Throw(e, "No ROM loaded")
  ELSE Ok(e, NoShot, <<>>)

\* GameBoyEmulator.pressButton
PressButton(e, button, fault) ==
  IF ~e.romLoaded THEN Throw(e, "No ROM loaded")
  ELSE IF fault THEN Throw(e, "Engine failure")
  ELSE Ok([e EXCEPT !.gameboy.frames = @ + 1], NoShot, <<Ev("doFrame", ButtonMap(button))>>)

\* GameBoyEmulator.doFrame
DoFrame(e, fault) ==
  IF ~e.romLoaded THEN Throw(e, "No ROM loaded")
  ELSE IF fault THEN Throw(e, "Engine failure")
  ELSE Ok([e EXCEPT !.gameboy.frames = @ + 1], NoShot, <<Ev("doFrame", "")>>)

\* a read of the screen that advances a frame first
GetScreenAsBase64Advancing(e) ==
  IF ~e.romLoaded THEN Throw(e, "No ROM loaded")
  ELSE Ok([e EXCEPT !.gameboy.frames = @ + 1],
          Snapshot([e.gameboy EXCEPT !.frames = @ + 1]),
          <<Ev("doFrame", ""), Ev("getScreen", "")>>)

\* a read that encodes the frame before the last one stepped
GetScreenAsBase64Stale(e) ==
  IF ~e.romLoaded THEN Throw(e, "No ROM loaded")
  ELSE Ok(e, Snapshot([e.gameboy EXCEPT !.frames = IF @ > 0 THEN @ - 1 ELSE 0]),
          <<Ev("getScreen", "")>>)

\* GameBoyEmulator.getScreenAsBase64
GetScreenAsBase64(e) ==
  IF ~e.romLoaded THEN Throw(e, "No ROM loaded")
  ELSE Ok(e, Snapshot(e.gameboy), <<Ev("getScreen", "")>>)

\* one operation of a program, applied to the emulator
Exec(o, e, fault) ==
  CASE o.op = "existsSync" ->
         IF ExistsSync(o.arg) THEN Ok(e, NoShot, <<>>)
         ELSE Throw(e, "ROM file not found")
    [] o.op = "isRomLoaded" ->
         IF IsRomLoaded(e) THEN Ok(e, NoShot, <<>>) ELSE Throw(e, "No ROM loaded")
    [] o.op = "loadRom" -> LoadRom(e, o.arg)
    [] o.op = "pressButton" -> PressButton(e, o.arg, fault)
    [] o.op = "doFrame" -> DoFrame(e, fault)
    [] o.op = "getScreenAsBase64" -> GetScreenAsBase64(e)
    [] o.op = "throw" -> Throw(e, o.arg)
    [] o.op = "return" -> Ok(e, NoShot, <<>>)

\* the catch block of EmulatorService.loadRom rewrites what it catches
Rethrow(msg, in) == IF in = "loadRom" THEN "Failed to load ROM" ELSE msg

\* a frame loop that awaits between frames
YieldsEachFrame(o) == o.op \in {"return", "doFrame"}

\* an operation after which the running task gives up the thread: only the
\* return of an async tool callback, whose caller awaits it
Yields(o) == o.op = "return"

\* ---------------------------------------------------------------- commands
\* the requests that can arrive
ApiRequests ==
  {Req("api", t, Undefined, NoDur, "") :
     t \in {Undefined, "", "get_screen", "reset", "load_rom", NumberTool, NoPrimitiveTool}}
  \cup {Req("api", "load_rom", p, NoDur, "") : p \in Paths \cup {""}}
  \cup {Req("api", "wait_frames", Undefined, d, "") : d \in DurValues}
  \cup {Req("api", t, Undefined, d, "") : t \in PressNames, d \in {NoDur, Whole(2)}}
  \cup {Req("api", t, Undefined, d, "") : t \in {"press_a", "press_select"}, d \in DurValues}

HttpRequests ==
  {Req("screen", "", Undefined, NoDur, ""), Req("advance", "", Undefined, NoDur, "")}

McpRequests ==
  {Req("mcp", t, Undefined, NoDur, "") :
     t \in McpPressNames \cup {"get_screen", "load_rom", "wait_frames"}}
  \cup {Req("mcp", "load_rom", p, NoDur, "") : p \in Paths}

SvcRequests ==
  {Req("svc", "loadRom", p, NoDur, "") : p \in Paths}
  \cup {Req("svc", "pressButton", Undefined, NoDur, b) : b \in GameBoyButton}
  \cup {Req("svc", "waitFrames", Undefined, Num(h), "") : h \in (-2)..(2 * MaxDur)}
  \cup {Req("svc", t, Undefined, NoDur, "") : t \in {"getScreen", "advanceFrameAndGetScreen"}}

StatusRequests == {Req("status", "", Undefined, NoDur, "")}

Requests ==
  ApiRequests \cup HttpRequests \cup McpRequests \cup SvcRequests \cup StatusRequests

\* The commands that run beside the recorded one.  Only their program and
\* their channel act on the state, so one request stands for all those with
\* the same program: the service methods are reached through POST /api/tool,
\* and one button stands for the buttons.
Others ==
  {req \in ApiRequests :
     req.tool \in {Undefined, "get_screen", "load_rom", "wait_frames", "press_a"}}
  \cup HttpRequests \cup McpRequests

\* ------------------------------------------------------------------- state
Slots == 1..MaxInFlight

\* the tag of a command of an SSE session: the channel whose transport
\* received it and its number among the commands of that channel
Tag(i, n) == [from |-> i, n |-> n]
NoTag == Tag(0, 0)

\* the answer to a POST /messages
Post(n, sid, status, body) == [n |-> n, sid |-> sid, status |-> status, body |-> body]
NoPost == Post(0, 0, 0, "")

Idle ==
  [st |-> "idle", req |-> NoReq, prog |-> <<>>, trace |-> <<>>,
   pre |-> Emu(FALSE, Undefined, [rom |-> "", frames |-> 0]),
   thrown |-> "", val |-> NoShot, fault |-> FALSE, cut |-> FALSE, resp |-> NoResp,
   obs |-> FALSE]

\* The history of a command (its request, the emulator it started on, the
\* engine events it caused, its response) is recorded for the command in
\* slot Observed, up to the start of the next command after its last engine
\* operation; of every other command only what the runtime needs to go on
\* running it is kept.
Observed == CHOOSE r \in 1..MaxInFlight : \A q \in 1..MaxInFlight : r <= q

Bare(s) ==
  IF s.st \in {"done", "unanswered", "failed"} THEN Idle
  ELSE [Idle EXCEPT !.st = s.st, !.prog = s.prog,
                    !.req = Req(s.req.chan, "", Undefined, NoDur, "")]

Mark(s) == IF s.obs THEN s ELSE Bare(s)

\* the emulator as one value
TheEmu == Emu(romLoaded, romPath, gameboy)

\* the frame steps a program still holds
FrameOps(prog) ==
  Cardinality({i \in DOMAIN prog : prog[i].op \in {"doFrame", "pressButton"}})

RECURSIVE Outstanding(_)
Outstanding(n) ==
  IF n = 0 THEN 0 ELSE FrameOps(slots[n].prog) + Outstanding(n - 1)

\* ------------------------------------------------------ the stdio start-up
\* the start-up of startStdioServer: where it is, the ROM_PATH it was given,
\* the status the process exited with, what it logged as an error, whether
\* httpServer.listen was called and the stdio transport is connected,
\* whether the engine raised in the initial load, the call of the try block
\* after the load that threw, and the SERVER_PORT it was given
NoExit == -1
DefaultPort == 3000
NoStdio ==
  [pc |-> "off", env |-> Undefined, port |-> DefaultPort, exit |-> NoExit, logged |-> "",
   listening |-> FALSE, connected |-> FALSE, fault |-> FALSE, threw |-> ""]
Launched(env, port) == [NoStdio EXCEPT !.pc = "start", !.env = env, !.port = port]

\* the greatest port there is: httpServer.listen(port) throws at once when
\* the port is out of range
MaxPort == 65535

\* log.error(msg); process.exit(1)
Exit(s, msg) == [s EXCEPT !.pc = "exited", !.exit = 1, !.logged = msg]

\* a try block with no catch
CaughtNever(thrown) == FALSE

\* the catch block of startStdioServer takes every exception of the try block
Caught(thrown) == thrown # ""

\* ------------------------------------------------------ the roms directory
\* file names, letter by letter
FileNames ==
  {<<"a", ".", "g", "b">>, <<"b", ".", "g", "b", "c">>, <<"c", ".", "g", "b", "a">>,
   <<"d", ".", "G", "B">>, <<".", "g", "b">>, <<"g", "b">>,
   <<"e", ".", "g", "b", ".", "t", "x", "t">>}

\* a test that finds the suffix anywhere in the name
Includes(s, suf) ==
  \E i \in 1..Len(s) : i + Len(suf) - 1 <= Len(s) /\ SubSeq(s, i, i + Len(suf) - 1) = suf

\* String.prototype.endsWith
EndsWith(s, suf) ==
  Len(s) >= Len(suf) /\ SubSeq(s, Len(s) - Len(suf) + 1, Len(s)) = suf

\* file => file.endsWith('.gb') || file.endsWith('.gbc')
IsRomFile(file) ==
  EndsWith(file, <<".", "g", "b">>) \/ EndsWith(file, <<".", "g", "b", "c">>)

\* path.join(process.cwd(), 'roms') and path.join(romsDir, file)
RomsDir == <<"r", "o", "m", "s">>
Join(dir, file) == dir \o <<"/">> \o file

\* the entries a directory can hold
Dirs == {d \in SUBSET FileNames : Cardinality(d) <= MaxEntries}

\* fs.readdirSync: the entries, in an order the file system chooses
ReadDirSync(d) ==
  {o \in [1..Cardinality(d) -> d] : \A i, j \in DOMAIN o : o[i] = o[j] => i = j}

\* an answer of a route that lists the ROMs: the route, the status, the
\* list sent, and the error sent in its place
Listing(route, status, body, error) ==
  [route |-> route, status |-> status, body |-> body, error |-> error]

\* the call of the fs module that throws in a request: none, or the one
\* that makes the directory, or the one that reads it
FsCalls == {"", "mkdirSync", "readdirSync"}

\* the path roms under the working directory: whether anything exists
\* there, whether it is a regular file and no directory, the entries of the
\* directory, the fs call that threw in the last request that lists the
\* ROMs, and the answer to that request
RomsOf(exists, d) ==
  [exists |-> exists, file |-> FALSE, dir |-> d, threw |-> "", resp |-> Listing("", 0, <<>>, "")]
NoRoms == RomsOf(FALSE, {})

\* ------------------------------------------------------- the emulator page
\* the polling script of the page: the checkbox, the fetches of updateScreen
\* that are under way, by endpoint, those whose response has come and whose
\* body is awaited, the delay of the pending timer that
\* updateTimeoutId names (0 when it names none that is pending), the pending
\* timers it no longer names, by delay, and the endpoint of the image shown
Endpoints == {"/screen", "/api/advance_and_get_screen"}
Delays == {AutoPlayDelay, IdleDelay}
NoPage ==
  [open |-> FALSE, autoPlayEnabled |-> FALSE,
   fetching |-> [e \in Endpoints |-> 0],
   reading |-> [e \in Endpoints |-> 0],
   updateTimeoutId |-> 0,
   timers |-> [d \in Delays |-> 0],
   src |-> ""]

\* a request whose reply is the screen as it is, with no frame advanced
NoAdvance(req) ==
  \/ req.chan = "screen"
  \/ req.chan = "api" /\ req.tool = "get_screen"
  \/ req.chan = "svc" /\ req.tool = "getScreen"

\* the command has returned the screen as it was, with no frame advanced
Shown(s) == s.st = "done" /\ NoAdvance(s.req) /\ s.resp.content # <<>>

InitCore ==
  /\ romLoaded = FALSE
  /\ romPath = Undefined
  /\ gameboy = [rom |-> "", frames |-> 0]
  /\ slots = [r \in Slots |-> Idle]
  /\ cur = 0
  /\ lastShot = NoShot
  /\ chans = <<>>
  /\ transports = <<>>
  /\ connected = 0
  /\ owner = NoTag
  /\ httpResp = NoPost

\* the server as the SSE entry point leaves it: no stdio start-up, the roms
\* directory not looked at, no emulator page open
Init ==
  /\ InitCore
  /\ stdio = NoStdio
  /\ roms = NoRoms
  /\ page = NoPage

\* operations on the engine: a load, a frame step, a read of the screen
EngineOps == {"loadRom", "pressButton", "doFrame", "getScreenAsBase64"}

\* the command has acted on the engine and has not yet read the screen it
\* returns
MidCommand(s) ==
  /\ s.st = "running"
  /\ s.trace # <<>>
  /\ \E i \in DOMAIN s.prog : s.prog[i].op \in EngineOps

\* the process has not ended on a rejected promise
Up == \A r \in 1..MaxInFlight : slots[r].st # "crashed"

\* the history of a command is dropped when another command starts after it
Forget(s) == IF MidCommand(s) THEN s ELSE Bare(s)

\* the thread is free and the handler of a request starts: it runs up to its
\* first emulator operation
BeginWithin(r, req, budget) ==
  /\ cur = 0
  /\ Up
  /\ slots[r].st \in {"idle", "done", "unanswered", "failed"}
  /\ \A q \in Slots : (q # Observed /\ q < r /\ r # Observed) => slots[q].st # "idle"
  /\ LET d == Handle(req, TheEmu)
         started == [Idle EXCEPT !.req = req, !.pre = TheEmu, !.obs = (r = Observed)]
     IN  /\ gameboy.frames + Outstanding(MaxInFlight) + FrameOps(d.prog) <= budget
         /\ IF d.escaped # ""
              THEN /\ \E ended \in Escaped(started, d.escaped) :
                        slots' = [s \in Slots |->
                          IF s = r THEN Mark(ended) ELSE Forget(slots[s])]
                   /\ cur' = 0
            ELSE IF d.reply # NoResp
              THEN /\ slots' = [s \in Slots |->
                        IF s = r THEN Mark([started EXCEPT !.st = "done", !.resp = d.reply])
                        ELSE Forget(slots[s])]
                   /\ cur' = 0
              ELSE /\ slots' = [s \in Slots |->
                        IF s = r THEN Mark([started EXCEPT !.st = "running", !.prog = d.prog])
                        ELSE Forget(slots[s])]
                   /\ cur' = r
  /\ lastShot' = IF Shown(slots[Observed]) THEN slots[Observed].val
                  ELSE IF r = Observed /\ ~NoAdvance(req) THEN NoShot
                  ELSE lastShot
  /\ UNCHANGED <<romLoaded, romPath, gameboy>>

Begin(r, req) == BeginWithin(r, req, MaxFrames)

\* the running command performs the next operation of its program; the
\* engine may raise while it runs a frame
Step(r, fault) ==
  /\ cur = r
  /\ Up
  /\ slots[r].st = "running"
  /\ slots[r].prog # <<>>
  /\ LET s == slots[r]
         o == Head(s.prog)
         x == Exec(o, TheEmu, fault)
         rest == IF x.thrown = "" THEN Tail(s.prog)
                 ELSE IF s.req.chan \in {"mcp", "mcpsvc"} THEN <<Op("return", "", "")>>
                 ELSE <<>>
         stepped == Mark(
           [s EXCEPT !.prog = rest,
                     !.trace = @ \o x.ev,
                     !.thrown = IF x.thrown = "" THEN @ ELSE Rethrow(x.thrown, o.in),
                     !.val = IF x.val = NoShot THEN @ ELSE x.val,
                     !.fault = @ \/ fault])
     IN  /\ fault => o.op \in {"doFrame", "pressButton"} /\ romLoaded
         /\ romLoaded' = x.e.romLoaded
         /\ romPath' = x.e.romPath
         /\ gameboy' = x.e.gameboy
         /\ slots' = [q \in Slots |->
               IF q = r THEN stepped
               ELSE IF x.ev # <<>> /\ MidCommand(slots[q])
                 THEN [slots[q] EXCEPT !.cut = TRUE]
               ELSE slots[q]]
         /\ cur' = IF Yields(o) THEN 0 ELSE r
         /\ lastShot' = IF x.e.gameboy = gameboy THEN lastShot ELSE NoShot

\* a command that gave up the thread gets it back
Resume(r) ==
  /\ cur = 0
  /\ Up
  /\ slots[r].st = "running"
  /\ cur' = r
  /\ UNCHANGED <<romLoaded, romPath, gameboy, slots, lastShot>>

\* the program has ended: the handler sends its response
Respond(r) ==
  /\ cur = r
  /\ Up
  /\ slots[r].st = "running"
  /\ slots[r].prog = <<>>
  /\ LET s == slots[r]
         resp == ResponseOf(s.req.chan, s.thrown, s.val)
     IN  slots' = [slots EXCEPT ![r] = Mark([s EXCEPT !.st = "done", !.resp = resp])]
  /\ cur' = 0
  /\ UNCHANGED <<romLoaded, romPath, gameboy, lastShot>>

Next ==
  \/ \E req \in Requests : Begin(Observed, req) /\ UNCHANGED <<sseVars, auxVars>>
  \/ \E r \in Slots \ {Observed}, req \in Others : Begin(r, req) /\ UNCHANGED <<sseVars, auxVars>>
  \/ \E r \in Slots, fault \in BOOLEAN : Step(r, fault) /\ UNCHANGED <<sseVars, auxVars>>
  \/ \E r \in Slots : Resume(r) /\ UNCHANGED <<sseVars, auxVars>>
  \/ \E r \in Slots : Respond(r) /\ UNCHANGED <<sseVars, auxVars>>

Spec == Init /\ [][Next]_vars

\* The runtime runs the code on the stack to its end: the command that holds
\* the thread performs its next operation, or sends its response.
Runs ==
  \/ \E r \in Slots, fault \in BOOLEAN : Step(r, fault) /\ UNCHANGED <<sseVars, auxVars>>
  \/ \E r \in Slots : Respond(r) /\ UNCHANGED <<sseVars, auxVars>>

\* POST /api/tool requests, beside the MCP tool calls that can be in flight
\* with them
ApiNext ==
  \/ \E req \in ApiRequests : Begin(Observed, req) /\ UNCHANGED <<sseVars, auxVars>>
  \/ \E r \in Slots \ {Observed}, req \in McpRequests : Begin(r, req) /\ UNCHANGED <<sseVars, auxVars>>
  \/ \E r \in Slots, fault \in BOOLEAN : Step(r, fault) /\ UNCHANGED <<sseVars, auxVars>>
  \/ \E r \in Slots : Resume(r) /\ UNCHANGED <<sseVars, auxVars>>
  \/ \E r \in Slots : Respond(r) /\ UNCHANGED <<sseVars, auxVars>>

\* the same commands, with no assumption on scheduling
ApiSpec == Init /\ [][ApiNext]_vars

LiveSpec == Init /\ [][ApiNext]_vars /\ WF_vars(Runs)

\* POST /api/tool with a required parameter left out, after a load; the
\* frames of a wait_frames with no duration_frames are given room
RequiredLeftOut ==
  {Req("api", "load_rom", p, NoDur, "") : p \in {"a.gb", Undefined, ""}}
  \cup {Req("api", "wait_frames", Undefined, NoDur, "")}

LeftOutNext ==
  \/ \E req \in RequiredLeftOut :
       BeginWithin(Observed, req, MaxFrames + DefaultWaitFrames) /\ UNCHANGED <<sseVars, auxVars>>
  \/ \E fault \in BOOLEAN : Step(Observed, fault) /\ UNCHANGED <<sseVars, auxVars>>
  \/ Respond(Observed) /\ UNCHANGED <<sseVars, auxVars>>

LeftOutSpec == Init /\ [][LeftOutNext]_vars

\* ===================================================================
\* The SSE server (startSseServer): GET /mcp opens a channel and registers
\* its transport under the transport's session id, POST /messages hands a
\* command to the transport registered under the id in the URL.  There is
\* one MCP server, and every transport is connected to it.
\* ===================================================================
\* the requests a session posts: tools/call of a tool of the registry, or
\* of a name that is none
SseRequests ==
  {Req("mcpsvc", t, Undefined, NoDur, "") : t \in {"get_screen", "press_a", "wait_frames"}}
  \cup {Req("mcpsvc", "load_rom", "a.gb", NoDur, "")}

\* the id in the URL of a POST /messages: 0 when the parameter is missing,
\* the id of a session that is or may come to be registered, or a name that
\* every object has, such as constructor
NoSessionId == 0
Constructor == -1
PostedIds == {Constructor} \cup 0..MaxSessions

\* what the registry, a plain object, inherits from Object.prototype: under
\* constructor (and toString, hasOwnProperty, __proto__) a value that is
\* defined and is no transport
NotATransport == -1
ObjectPrototype == [id \in {Constructor} |-> NotATransport]

\* transport.sessionId of the i-th transport created: the SDK makes it, and
\* the specification has it fresh and unique
SessionId(i) == i

\* a channel: the id of its transport, where GET /mcp is with it, whether
\* the transport has its stream (server.connect starts the transport before
\* its promise settles), the commands posted with its id and the responses
\* sent on it
Channel(id, st, started) ==
  [id |-> id, st |-> st, started |-> started, posted |-> 0, out |-> <<>>]

\* the channel is established and not closed: commands posted with its id
\* are taken and responses can be sent on it
Open(i) == i \in DOMAIN chans /\ chans[i].started

\* transports[sessionId] = transport
Put(reg, id, i) == [k \in DOMAIN reg \cup {id} |-> IF k = id THEN i ELSE reg[k]]

\* an onclose handler that empties the registry
RemoveAll(reg, id) == [k \in {} |-> 0]

\* delete transports[sessionId]
Remove(reg, id) == [k \in DOMAIN reg \ {id} |-> reg[k]]

\* transports[sessionId]: the transport registered under the id, or the
\* member the object inherits under that name, or 0 for undefined
Lookup(reg, id) ==
  IF id \in DOMAIN reg THEN reg[id]
  ELSE IF id \in DOMAIN ObjectPrototype THEN ObjectPrototype[id]
  ELSE 0

\* the server is between two requests: nothing runs and no callback's
\* result is on its way
Quiet == cur = 0 /\ \A r \in Slots : slots[r].st # "running"

\* the server sends a response on the transport it is connected to
Delivered(cs, tag) ==
  IF connected = 0 \/ ~cs[connected].started THEN cs
  ELSE [cs EXCEPT ![connected].out = Append(@, tag)]

\* GET /mcp up to its await: create the transport, register it, install the
\* onclose handler and call server.connect, which takes the transport for
\* the server's own and starts it, or fails to; the handler then waits for
\* the promise of connect
OpenSession(ok) ==
  /\ Quiet
  /\ Len(chans) < MaxSessions
  /\ LET i == Len(chans) + 1
         id == SessionId(i)
     IN  /\ chans' = Append(chans, Channel(id, "connecting", ok))
         /\ transports' = Put(transports, id, i)
         /\ connected' = i
  /\ UNCHANGED <<romLoaded, romPath, gameboy, slots, cur, lastShot, owner, httpResp>>

\* the promise of server.connect settles and GET /mcp goes on after its
\* await: it logs that the stream is established, or connect has thrown,
\* which the catch block only logs and answers with 500
ConnectSettles(i) ==
  /\ Quiet
  /\ i \in DOMAIN chans
  /\ chans[i].st = "connecting"
  /\ chans' = [chans EXCEPT ![i].st = IF chans[i].started THEN "open" ELSE "failed"]
  /\ UNCHANGED <<romLoaded, romPath, gameboy, slots, cur, lastShot,
                 transports, connected, owner, httpResp>>

\* the channel is closed by the client or by the server: transport.onclose
\* runs the handler installed by GET /mcp and the server's own
CloseSession(i) ==
  /\ Quiet
  /\ Open(i)
  /\ chans' = [chans EXCEPT ![i].st = "closed", ![i].started = FALSE]
  /\ transports' = Remove(transports, chans[i].id)
  /\ connected' = 0
  /\ UNCHANGED <<romLoaded, romPath, gameboy, slots, cur, lastShot, owner, httpResp>>

\* POST /messages?sessionId=sid with a tools/call request; the catch block
\* answers 500 when what was found under the id has no handlePostMessage
PostMessage(sid, req) ==
  /\ Quiet
  /\ httpResp.n < MaxPosts
  /\ LET i == Lookup(transports, sid)
         n == httpResp.n + 1
         refuse(status, body) ==
           /\ httpResp' = Post(n, sid, status, body)
           /\ UNCHANGED <<romLoaded, romPath, gameboy, slots, cur, lastShot,
                          chans, transports, connected, owner>>
     IN  IF sid = NoSessionId THEN refuse(400, "Missing sessionId parameter")
         ELSE IF i = 0 THEN refuse(404, "Session not found")
         ELSE IF i = NotATransport THEN refuse(500, "Error handling request")
         ELSE IF ~Open(i) THEN refuse(500, "SSE connection not established")
         ELSE LET tag == Tag(i, chans[i].posted + 1)
                  d == Dispatch(req, IsRomLoaded(TheEmu))
                  counted == [chans EXCEPT ![i].posted = @ + 1]
              IN  /\ Begin(Observed, req)
                  /\ httpResp' = Post(n, sid, 202, "Accepted")
                  /\ owner' = tag
                  /\ chans' = IF d.reply # NoResp THEN Delivered(counted, tag) ELSE counted
                  /\ UNCHANGED <<transports, connected>>

\* the tool callback of the command goes on
SseStep(fault) == Step(Observed, fault) /\ UNCHANGED <<sseVars, auxVars>>

SseResume == Resume(Observed) /\ UNCHANGED <<sseVars, auxVars>>

\* the callback's result is sent as the response of the command
SseRespond ==
  /\ Respond(Observed)
  /\ chans' = Delivered(chans, owner)
  /\ UNCHANGED <<transports, connected, owner, httpResp>>

SseNext ==
  \/ \E ok \in BOOLEAN : OpenSession(ok) /\ UNCHANGED auxVars
  \/ \E i \in 1..MaxSessions : ConnectSettles(i) /\ UNCHANGED auxVars
  \/ \E i \in 1..MaxSessions : CloseSession(i) /\ UNCHANGED auxVars
  \/ \E sid \in PostedIds, req \in SseRequests : PostMessage(sid, req) /\ UNCHANGED auxVars
  \/ \E fault \in BOOLEAN : SseStep(fault)
  \/ SseResume
  \/ SseRespond /\ UNCHANGED auxVars

SseSpec == Init /\ [][SseNext]_vars


\* ===================================================================
\* The stdio server (startStdioServer)
\* ===================================================================
\* the commands of a client of the stdio server: POST /api/tool, GET /screen,
\* GET /api/advance_and_get_screen, the MCP tools, and GET /gameboy, which
\* calls loadRom of the service
StdioRequests ==
  {Req("api", t, Undefined, NoDur, "") : t \in {"get_screen", "press_a"}}
  \cup {Req("api", "load_rom", p, NoDur, "") : p \in {"b.gb", "nofile.gb"}}
  \cup HttpRequests
  \cup {Req("mcpsvc", t, Undefined, NoDur, "") : t \in {"get_screen", "press_a", "load_rom"}}
  \cup {Req("mcpsvc", "load_rom", p, NoDur, "") : p \in {"b.gb", "nofile.gb"}}
  \cup {Req("gameboy", "", p, NoDur, "") : p \in {Undefined, "b.gb", "roms", "nofile.gb"}}

StdioOthers ==
  {Req("mcpsvc", t, Undefined, NoDur, "") : t \in {"get_screen", "press_a"}}

\* the HTTP routes answer from the moment the HTTP server listens, and
\* server.connect starts the transport, which reads the tools/call requests
\* from then on, before its promise settles
Serving == stdio.pc \in {"connecting", "running"}

\* ROM_PATH is unset, empty or the name of a file; SERVER_PORT is unset or
\* a port, or a number that is no port
StdioInit ==
  /\ InitCore
  /\ stdio \in {Launched(env, port) : env \in {Undefined, ""} \cup Paths,
                                       port \in {DefaultPort, MaxPort + 1}}
  /\ roms = NoRoms
  /\ page = NoPage

\* startStdioServer up to the first emulator operation of the initial load
StartStdioServer ==
  /\ stdio.pc = "start"
  /\ IF NoRomPath(stdio.env)
       THEN /\ stdio' = Exit(stdio, "ROM_PATH environment variable not set")
            /\ UNCHANGED coreVars
     ELSE IF ~ExistsSync(stdio.env)
       THEN /\ stdio' = Exit(stdio, "ROM file not found")
            /\ UNCHANGED coreVars
     ELSE /\ Begin(Observed, Req("svc", "loadRom", stdio.env, NoDur, ""))
          /\ stdio' = [stdio EXCEPT !.pc = "loading"]

\* the try block once loadRom has returned or thrown, up to its await: the
\* routes are registered, httpServer.listen is called and server.connect is
\* entered, or the catch block logs and exits, for the exception of loadRom
\* or for that of listen
StdioServe ==
  /\ stdio.pc = "loading"
  /\ cur = Observed
  /\ slots[Observed].st = "running"
  /\ slots[Observed].prog = <<>>
  /\ stdio' =
       IF Caught(slots[Observed].thrown)
         THEN [Exit(stdio, "Error starting server") EXCEPT !.fault = slots[Observed].fault]
       ELSE IF Caught(IF stdio.port \in 0..MaxPort THEN "" ELSE "listen")
         THEN [Exit(stdio, "Error starting server") EXCEPT !.threw = "listen"]
       ELSE [stdio EXCEPT !.pc = "connecting", !.listening = TRUE,
                          !.fault = slots[Observed].fault]
  /\ slots' = [slots EXCEPT ![Observed] = Idle]
  /\ cur' = 0
  /\ UNCHANGED <<romLoaded, romPath, gameboy, lastShot>>

\* the promise of server.connect settles and startStdioServer goes on after
\* its await: the transport is connected, or connect has thrown and the
\* catch block logs and exits, after httpServer.listen was called
StdioConnect(ok) ==
  /\ stdio.pc = "connecting"
  /\ cur = 0
  /\ stdio' =
       IF Caught(IF ok THEN "" ELSE "connect failed")
         THEN [Exit(stdio, "Error starting server") EXCEPT !.threw = "connect"]
         ELSE [stdio EXCEPT !.pc = "running", !.connected = TRUE]
  /\ UNCHANGED coreVars

StdioNext ==
  \/ StartStdioServer /\ UNCHANGED <<sseVars, roms, page>>
  \/ StdioServe /\ UNCHANGED <<sseVars, roms, page>>
  \/ \E ok \in BOOLEAN : StdioConnect(ok) /\ UNCHANGED <<sseVars, roms, page>>
  \/ \E req \in StdioRequests :
       Serving /\ Begin(Observed, req) /\ UNCHANGED <<sseVars, auxVars>>
  \/ \E r \in Slots \ {Observed}, req \in StdioOthers :
       Serving /\ Begin(r, req) /\ UNCHANGED <<sseVars, auxVars>>
  \/ \E r \in Slots, fault \in BOOLEAN :
       stdio.pc \in {"loading", "connecting", "running"} /\ Step(r, fault)
       /\ UNCHANGED <<sseVars, auxVars>>
  \/ \E r \in Slots : Serving /\ Resume(r) /\ UNCHANGED <<sseVars, auxVars>>
  \/ \E r \in Slots :
       Serving /\ Respond(r) /\ UNCHANGED <<sseVars, auxVars>>

StdioSpec == StdioInit /\ [][StdioNext]_vars

\* ===================================================================
\* GET /api/roms
\* ===================================================================
RomsInit ==
  /\ InitCore
  /\ stdio = NoStdio
  /\ roms \in {NoRoms, [RomsOf(TRUE, {}) EXCEPT !.file = TRUE]}
             \cup {RomsOf(TRUE, d) : d \in Dirs}
  /\ page = NoPage

\* what the fs calls of a request make of the path: reading a regular file
\* as a directory always throws, and mkdirSync is only called when nothing
\* exists at the path
CanThrow(threw) ==
  /\ roms.file => threw = "readdirSync"
  /\ threw = "mkdirSync" => ~roms.exists

\* if (!fs.existsSync(romsDir)) fs.mkdirSync(romsDir)
Made(threw) == roms.exists \/ threw # "mkdirSync"

\* fs.readdirSync(romsDir).filter(...).map(...), for one order of the
\* entries
RomFiles(files) ==
  LET romFiles == SelectSeq(files, IsRomFile)
  IN  [i \in DOMAIN romFiles |->
         [name |-> romFiles[i], path |-> Join(RomsDir, romFiles[i])]]

\* the handler of GET /api/roms: it makes the directory when it is missing,
\* reads it, and answers with the entries that pass the filter; its catch
\* block answers 500 when one of the fs calls throws
ListRoms(threw) ==
  /\ cur = 0
  /\ CanThrow(threw)
  /\ \E files \in ReadDirSync(roms.dir) :
       roms' = [roms EXCEPT
                  !.exists = Made(threw),
                  !.threw = threw,
                  !.resp = IF threw # ""
                             THEN Listing("/api/roms", 500, <<>>, "Failed to get ROM list")
                             ELSE Listing("/api/roms", 200, RomFiles(files), "")]
  /\ UNCHANGED coreVars

\* the handler of GET / of setupRomSelectionUI: it makes the directory when
\* it is missing and reads it the same way, and its catch block goes on
\* with the empty list, so the page is sent whatever the fs calls do
RomSelectionPage(threw) ==
  /\ cur = 0
  /\ CanThrow(threw)
  /\ \E files \in ReadDirSync(roms.dir) :
       roms' = [roms EXCEPT
                  !.exists = Made(threw),
                  !.threw = threw,
                  !.resp = Listing("/", 200, IF threw # "" THEN <<>> ELSE RomFiles(files), "")]
  /\ UNCHANGED coreVars

\* POST /upload: multer makes the directory if it is missing and stores the
\* file under its original name
Upload(file) ==
  /\ cur = 0
  /\ ~roms.file
  /\ Cardinality(roms.dir \cup {file}) <= MaxEntries
  /\ roms' = [roms EXCEPT !.exists = TRUE, !.dir = @ \cup {file}]
  /\ UNCHANGED coreVars

RomsNext ==
  \/ \E threw \in FsCalls : ListRoms(threw) /\ UNCHANGED <<sseVars, stdio, page>>
  \/ \E threw \in FsCalls : RomSelectionPage(threw) /\ UNCHANGED <<sseVars, stdio, page>>
  \/ \E file \in FileNames : Upload(file) /\ UNCHANGED <<sseVars, stdio, page>>
  \/ Begin(Observed, Req("api", "load_rom", "a.gb", NoDur, "")) /\ UNCHANGED <<sseVars, auxVars>>
  \/ Step(Observed, FALSE) /\ UNCHANGED <<sseVars, auxVars>>
  \/ Respond(Observed) /\ UNCHANGED <<sseVars, auxVars>>

RomsSpec == RomsInit /\ [][RomsNext]_vars

\* ===================================================================
\* The polling script of the emulator page
\* ===================================================================
\* the update cycles under way: fetches and pending timers
Cycles(p) ==
  p.fetching["/screen"] + p.fetching["/api/advance_and_get_screen"]
  + p.reading["/screen"] + p.reading["/api/advance_and_get_screen"]
  + (IF p.updateTimeoutId # 0 THEN 1 ELSE 0)
  + p.timers[AutoPlayDelay] + p.timers[IdleDelay]

\* a script that polls the advancing endpoint whatever the checkbox says
UpdateScreenAdvancing(p) ==
  [p EXCEPT !.fetching["/api/advance_and_get_screen"] = @ + 1]

\* updateScreen up to its fetch
UpdateScreen(p) ==
  LET endpoint == IF p.autoPlayEnabled THEN "/api/advance_and_get_screen" ELSE "/screen"
  IN  [p EXCEPT !.fetching[endpoint] = @ + 1]

\* scheduleNextUpdate: the new timer takes the place of the one that
\* updateTimeoutId named, which stays pending
ScheduleNextUpdate(p) ==
  LET delay == IF p.autoPlayEnabled THEN AutoPlayDelay ELSE IdleDelay
      kept == IF p.updateTimeoutId # 0
                THEN [p EXCEPT !.timers[p.updateTimeoutId] = @ + 1]
                ELSE p
  IN  [kept EXCEPT !.updateTimeoutId = delay]

\* if (updateTimeoutId) clearTimeout(updateTimeoutId)
ClearTimeout(p) == [p EXCEPT !.updateTimeoutId = 0]

\* <img id="screen" src="/screen">: the image the page is sent with, which
\* the browser gets for itself
ScreenAttribute == "attribute /screen"

\* the page as its script leaves it: the image of the element shown, the
\* loop started
PollInit ==
  /\ InitCore
  /\ stdio = NoStdio
  /\ roms = NoRoms
  /\ page = UpdateScreen([NoPage EXCEPT !.open = TRUE, !.src = ScreenAttribute])

\* the change listener of the auto-play checkbox
Toggle ==
  /\ page.open
  /\ LET p == UpdateScreen(ClearTimeout([page EXCEPT !.autoPlayEnabled = ~@]))
     IN  Cycles(p) <= MaxCycles /\ page' = p

\* updateScreen goes on after await fetch: with a response that is OK it
\* asks for the body and waits again; with one that is not OK it schedules
\* the next update and returns through the finally block, which schedules
\* another; a fetch that rejects goes through the catch and the finally block
FetchEnds(endpoint, outcome) ==
  /\ page.open
  /\ page.fetching[endpoint] > 0
  /\ LET got == [page EXCEPT !.fetching[endpoint] = @ - 1]
         p == CASE outcome = "ok" -> [got EXCEPT !.reading[endpoint] = @ + 1]
                [] outcome = "notOk" -> ScheduleNextUpdate(ScheduleNextUpdate(got))
                [] outcome = "error" -> ScheduleNextUpdate(got)
     IN  Cycles(p) <= MaxCycles /\ page' = p

\* updateScreen goes on after await response.blob(): the image is shown, or
\* the body could not be read and the catch block logs; the finally block
\* schedules the next update
BodyEnds(endpoint, ok) ==
  /\ page.open
  /\ page.reading[endpoint] > 0
  /\ LET got == [page EXCEPT !.reading[endpoint] = @ - 1]
     IN  page' = ScheduleNextUpdate(IF ok THEN [got EXCEPT !.src = endpoint] ELSE got)

\* the timer that updateTimeoutId names fires
TimerFires ==
  /\ page.open
  /\ page.updateTimeoutId # 0
  /\ page' = UpdateScreen(ClearTimeout(page))

\* a pending timer that updateTimeoutId no longer names fires
OldTimerFires(delay) ==
  /\ page.open
  /\ page.timers[delay] > 0
  /\ page' = UpdateScreen([page EXCEPT !.timers[delay] = @ - 1])

PollNext ==
  \/ Toggle /\ UNCHANGED <<coreVars, sseVars, stdio, roms>>
  \/ \E endpoint \in Endpoints, outcome \in {"ok", "notOk", "error"} :
       FetchEnds(endpoint, outcome) /\ UNCHANGED <<coreVars, sseVars, stdio, roms>>
  \/ \E endpoint \in Endpoints, ok \in BOOLEAN :
       BodyEnds(endpoint, ok) /\ UNCHANGED <<coreVars, sseVars, stdio, roms>>
  \/ TimerFires /\ UNCHANGED <<coreVars, sseVars, stdio, roms>>
  \/ \E delay \in Delays : OldTimerFires(delay) /\ UNCHANGED <<coreVars, sseVars, stdio, roms>>

PollSpec == PollInit /\ [][PollNext]_vars

\* ===================================================================
\* The emulator page and the server that answers its polls
\* ===================================================================
\* the route a poll goes to
Route(endpoint) == IF endpoint = "/screen" THEN "screen" ELSE "advance"

\* the server has answered a poll and the page has not yet got the answer
Undelivered ==
  slots[Observed].st = "done" /\ slots[Observed].req.chan \in {"screen", "advance"}

\* the server takes the request of a fetch that is under way
Serve(endpoint) ==
  /\ page.open
  /\ page.fetching[endpoint] > 0
  /\ ~Undelivered
  /\ Begin(Observed, Req(Route(endpoint), "", Undefined, NoDur, ""))

\* a client loads a ROM through POST /api/tool
PageLoad ==
  /\ ~Undelivered
  /\ Begin(Observed, Req("api", "load_rom", "a.gb", NoDur, ""))

\* the answer reaches the script, response.ok true for status 200, or it is
\* lost on its way and the fetch rejects though the server has answered
Answered(endpoint, lost) ==
  /\ Undelivered
  /\ slots[Observed].req.chan = Route(endpoint)
  /\ FetchEnds(endpoint, IF lost THEN "error"
                         ELSE IF slots[Observed].resp.status = 200 THEN "ok" ELSE "notOk")
  /\ slots' = [slots EXCEPT ![Observed] = Idle]
  /\ UNCHANGED <<romLoaded, romPath, gameboy, cur, lastShot>>

\* the fetch fails with a network error, its request never served
FetchFails(endpoint) ==
  /\ ~Undelivered
  /\ cur = 0
  /\ FetchEnds(endpoint, "error")
  /\ UNCHANGED coreVars

PageNext ==
  \/ Toggle /\ UNCHANGED <<coreVars, sseVars, stdio, roms>>
  \/ TimerFires /\ UNCHANGED <<coreVars, sseVars, stdio, roms>>
  \/ \E delay \in Delays : OldTimerFires(delay) /\ UNCHANGED <<coreVars, sseVars, stdio, roms>>
  \/ \E endpoint \in Endpoints : Serve(endpoint) /\ UNCHANGED <<sseVars, auxVars>>
  \/ PageLoad /\ UNCHANGED <<sseVars, auxVars>>
  \/ \E fault \in BOOLEAN : Step(Observed, fault) /\ UNCHANGED <<sseVars, auxVars>>
  \/ Respond(Observed) /\ UNCHANGED <<sseVars, auxVars>>
  \/ \E endpoint \in Endpoints, lost \in BOOLEAN :
       Answered(endpoint, lost) /\ UNCHANGED <<sseVars, stdio, roms>>
  \/ \E endpoint \in Endpoints, ok \in BOOLEAN :
       BodyEnds(endpoint, ok) /\ UNCHANGED <<coreVars, sseVars, stdio, roms>>
  \/ \E endpoint \in Endpoints : FetchFails(endpoint) /\ UNCHANGED <<sseVars, stdio, roms>>

PageSpec == PollInit /\ [][PageNext]_vars

\* ===================================================================
\* POST /mcp/tool
\* ===================================================================
McpToolRequests ==
  {Req("mcptool", t, Undefined, NoDur, "") :
     t \in {Undefined, "get_screen", "load_rom", "reset"} \cup PressNames}
  \cup {Req("mcptool", "load_rom", p, NoDur, "") : p \in {"a.gb", "nofile.gb"}}

McpToolNext ==
  \/ \E req \in McpToolRequests : Begin(Observed, req) /\ UNCHANGED <<sseVars, auxVars>>
  \/ \E fault \in BOOLEAN : Step(Observed, fault) /\ UNCHANGED <<sseVars, auxVars>>
  \/ Respond(Observed) /\ UNCHANGED <<sseVars, auxVars>>

McpToolSpec == Init /\ [][McpToolNext]_vars

\* ===================================================================
\* Properties.  O is the command whose history is recorded.
\* ===================================================================
O == slots[Observed]
Done == O.st = "done"
Succeeded == O.resp.content # <<>>

\* the frame steps among the engine events of a command
IsFrame(e) == e.op = "doFrame"
FrameEvents(trace) == SelectSeq(trace, IsFrame)

\* n frame steps with no key pressed
Free(n) == [i \in 1..n |-> Ev("doFrame", "")]

\* the screen n frames after the one the command started on
After(n) == Snapshot([O.pre.gameboy EXCEPT !.frames = @ + n])

\* the command read the screen after every other engine event it caused
ScreenLast == O.trace # <<>> /\ O.trace[Len(O.trace)] = Ev("getScreen", "")

\* the reply a channel gives for an error message of the service
Http(chan) == chan \in {"api", "screen", "advance"}
NoRomReply == Reply(IF Http(O.req.chan) THEN 400 ELSE 0, <<"No ROM loaded">>)

\* ---------------------------------------------------------------- C1
\* a command that needs a ROM
NeedsRom(req) ==
  \/ req.chan = "api" /\ req.tool \notin {Undefined, "", "load_rom"}
  \/ req.chan = "mcp" /\ req.tool \in McpPressNames \cup {"get_screen"}
  \/ req.chan \in {"screen", "advance"}
  \/ req.chan = "svc" /\ req.tool # "loadRom"

\* C1: a command other than load_rom that is handled while no ROM is loaded
\* is answered 'No ROM loaded', causes no engine event and leaves the
\* emulator (loaded, path, frames) as it was.
C1_NoRomLoaded ==
  (Done /\ NeedsRom(O.req) /\ ~O.pre.romLoaded) =>
     /\ O.resp = NoRomReply
     /\ O.trace = <<>>
     /\ TheEmu = O.pre

C1_Witness ==
  /\ Done /\ ~O.pre.romLoaded
  /\ O.req.chan = "mcp" /\ O.req.tool = "press_start"
  /\ O.resp = Reply(0, <<"No ROM loaded">>)

\* ---------------------------------------------------------------- C2
\* C2: no other command's frame step, load or screen read falls between the
\* first engine event of a command and the read of the screen it returns.
C2_NoInterleaving == \A r \in Slots : ~slots[r].cut

\* the observed command is past its second engine event while another
\* command is in flight
C2_Witness ==
  /\ O.st = "running" /\ Len(O.trace) >= 2 /\ MidCommand(O)
  /\ \E r \in Slots \ {Observed} : slots[r].st = "running"

\* ---------------------------------------------------------------- C3
ApiPress(req) ==
  /\ req.chan = "api"
  /\ req.tool \in PressNames
  /\ ToUpperCase(ReplacePress(req.tool)) \in GameBoyButton

IsWhole(d) == d.t = "number" /\ d.h > 0 /\ d.h % 2 = 0

\* the N of a press: duration_frames, or 1 when it is absent
PressN(req) == IF req.dur = NoDur THEN DefaultPressFrames ELSE req.dur.h \div 2

\* C3: with a ROM loaded, press_<button> with duration_frames = N on POST
\* /api/tool steps the engine N times, the first step with the button
\* pressed and the others with no key, and returns the screen read after
\* the N-th step.
C3_PressHold ==
  (/\ Done /\ ApiPress(O.req) /\ (O.req.dur = NoDur \/ IsWhole(O.req.dur))
   /\ O.pre.romLoaded /\ ~O.fault) =>
     LET n == PressN(O.req)
         b == ToUpperCase(ReplacePress(O.req.tool))
     IN  /\ FrameEvents(O.trace) = <<Ev("doFrame", b)>> \o Free(n - 1)
         /\ gameboy.frames = O.pre.gameboy.frames + n
         /\ ScreenLast
         /\ O.resp = Content(After(n))

C3_Witness ==
  /\ Done /\ O.req.chan = "api" /\ O.req.tool = "press_a" /\ O.req.dur = Whole(3)
  /\ Len(FrameEvents(O.trace)) = 3
  /\ Succeeded

\* ---------------------------------------------------------------- C4
\* a load of a named path, through the service, POST /api/tool or the MCP tool
IsLoad(req) ==
  /\ req.romPath \in Paths
  /\ \/ req.chan = "svc" /\ req.tool = "loadRom"
     \/ req.chan \in {"api", "mcp"} /\ req.tool = "load_rom"

\* C4: a load that succeeds has set loaded and the path, then stepped the
\* engine 5 times with no key, then read the screen it returns; and a load
\* of a readable ROM succeeds unless the engine raises.
C4_Load ==
  (Done /\ IsLoad(O.req)) =>
     /\ (FileKind(O.req.romPath) = "rom" /\ ~O.fault) => Succeeded
     /\ Succeeded =>
          /\ O.trace = <<Ev("loadRom", O.req.romPath)>> \o Free(WarmupFrames)
                         \o <<Ev("getScreen", "")>>
          /\ romLoaded /\ romPath = O.req.romPath
          /\ O.resp.content =
               <<[rom |-> O.req.romPath, frames |-> O.pre.gameboy.frames + WarmupFrames]>>

\* a load of another ROM over a loaded one
C4_Witness ==
  /\ Done /\ IsLoad(O.req) /\ Succeeded
  /\ O.pre.romLoaded /\ O.pre.romPath # O.req.romPath
  /\ romPath = O.req.romPath

\* ---------------------------------------------------------------- C5
\* the message of the error a reply carries
ErrorOf(resp) == IF resp.error = <<>> THEN "" ELSE resp.error[Len(resp.error)]

\* C5 as claimed: a load of a path that is no readable ROM fails with the
\* not-found error, steps nothing and leaves the emulator as it was.
C5_Original ==
  (Done /\ IsLoad(O.req) /\ FileKind(O.req.romPath) # "rom") =>
     /\ ~Succeeded /\ ErrorOf(O.resp) = "ROM file not found"
     /\ O.trace = <<>>
     /\ TheEmu = O.pre

\* C5 (amended): a load of a path that is no readable ROM fails, causes no
\* engine event and leaves the emulator as it was; the error is the
\* not-found error when the path does not exist and the service is asked,
\* and the load failure otherwise (an existing path that cannot be read, or
\* the MCP tool, which asks the emulator itself).
C5_FailedLoad ==
  (Done /\ IsLoad(O.req) /\ FileKind(O.req.romPath) # "rom") =>
     /\ ~Succeeded
     /\ ErrorOf(O.resp) =
          IF O.req.chan # "mcp" /\ FileKind(O.req.romPath) = "missing"
            THEN "ROM file not found" ELSE "Failed to load ROM"
     /\ O.trace = <<>>
     /\ TheEmu = O.pre

\* a failed load over a loaded ROM
C5_Witness ==
  /\ Done /\ IsLoad(O.req) /\ O.req.chan = "api" /\ O.req.romPath = "nofile.gb"
  /\ O.resp = Reply(500, <<"Failed to call tool", "ROM file not found">>)
  /\ romLoaded /\ romPath = "a.gb"

\* ---------------------------------------------------------------- C6
IsWait(req) ==
  \/ req.chan = "svc" /\ req.tool = "waitFrames"
  \/ req.chan = "api" /\ req.tool = "wait_frames"

\* C6: with a ROM loaded, waitFrames(n) for a positive integer n steps the
\* engine n times with no key and returns the screen read after the n-th.
C6_WaitFrames ==
  (Done /\ IsWait(O.req) /\ IsWhole(O.req.dur) /\ O.pre.romLoaded /\ ~O.fault) =>
     LET n == O.req.dur.h \div 2
     IN  /\ FrameEvents(O.trace) = Free(n)
         /\ gameboy.frames = O.pre.gameboy.frames + n
         /\ ScreenLast
         /\ O.resp.content = <<After(n)>>

C6_Witness ==
  /\ Done /\ O.req.chan = "svc" /\ O.req.tool = "waitFrames" /\ O.req.dur = Whole(3)
  /\ FrameEvents(O.trace) = Free(3)
  /\ Succeeded

\* ---------------------------------------------------------------- C7
BadWait(req) ==
  /\ req.chan = "api" /\ req.tool = "wait_frames"
  /\ req.dur.t = "number" /\ req.dur.h <= 0

\* C7: wait_frames with duration_frames <= 0 on POST /api/tool is answered
\* with the invalid-parameter error and steps nothing.  The handler tests
\* isRomLoaded before it validates the parameters, so with no ROM loaded
\* the answer is 'No ROM loaded'.
C7_Original ==
  (Done /\ BadWait(O.req)) =>
     /\ O.resp = Reply(400, <<"Invalid duration_frames">>)
     /\ O.trace = <<>>

\* ---------------------------------------------------------------- C8
SvcBadWait(req) ==
  req.chan = "svc" /\ req.tool = "waitFrames" /\ req.dur.h <= 0

\* C8 as claimed: with a ROM loaded the service's waitFrames(n) fails for
\* n <= 0 and returns no screen.
C8_Original ==
  (Done /\ SvcBadWait(O.req) /\ O.pre.romLoaded) =>
     ~Succeeded /\ O.resp.error # <<>>

\* C8 (amended): with a ROM loaded the service's waitFrames(n) for n <= 0
\* steps nothing and returns the screen as it is; no error is raised.
C8_WaitNothing ==
  (Done /\ SvcBadWait(O.req) /\ O.pre.romLoaded) =>
     /\ O.resp = [status |-> 0, error |-> <<>>, content |-> <<Snapshot(O.pre.gameboy)>>]
     /\ O.trace = <<Ev("getScreen", "")>>
     /\ TheEmu = O.pre

C8_Witness ==
  /\ Done /\ SvcBadWait(O.req) /\ O.req.dur = Whole(-1) /\ O.pre.romLoaded
  /\ Succeeded /\ O.resp.error = <<>>

\* ---------------------------------------------------------------- C9
\* C9: a screen read with no advance (EmulatorService.getScreen, GET
\* /screen, get_screen on POST /api/tool) steps nothing and leaves the
\* emulator as it was, and it returns what the screen read before it
\* returned when nothing has acted on the engine in between.
C9_NoAdvance ==
  (Done /\ NoAdvance(O.req)) =>
     /\ FrameEvents(O.trace) = <<>>
     /\ TheEmu = O.pre
     /\ (Succeeded /\ lastShot # NoShot) => O.resp.content = <<lastShot>>

\* the second of two reads in a row
C9_Witness ==
  /\ Done /\ O.req.chan = "screen" /\ Succeeded
  /\ lastShot # NoShot /\ O.resp.content = <<lastShot>>

\* --------------------------------------------------------------- C10
IsAdvance(req) ==
  \/ req.chan = "svc" /\ req.tool = "advanceFrameAndGetScreen"
  \/ req.chan = "advance"
  \/ req.chan \in {"mcp", "mcpsvc"} /\ req.tool = "get_screen"

\* C10: with a ROM loaded, advance-and-snapshot (the service method, GET
\* /api/advance_and_get_screen, the MCP get_screen tool) steps the engine
\* once with no key and returns the screen read after that step.  The MCP
\* get_screen tool of the servers that register the tools on the
\* EmulatorService throws before it steps.
C10_Original ==
  (Done /\ IsAdvance(O.req) /\ O.pre.romLoaded /\ ~O.fault) =>
     /\ O.trace = <<Ev("doFrame", ""), Ev("getScreen", "")>>
     /\ gameboy.frames = O.pre.gameboy.frames + 1
     /\ O.resp.content = <<After(1)>>

\* ===================================================================
\* The SSE sessions (checked under SseSpec).
\* ===================================================================
\* the open channels
OpenChans == {i \in DOMAIN chans : Open(i)}

\* the step is a POST /messages
Posted == httpResp'.n # httpResp.n

\* the step hands the posted command to the tool registry on behalf of the
\* channel i
DispatchedFor(i) ==
  /\ httpResp'.status = 202
  /\ owner' = Tag(i, chans[i].posted + 1)
  /\ slots'[Observed].req \in SseRequests
  /\ slots'[Observed].st \in {"running", "done"}

\* C11: two sessions open at the same time have distinct session ids, the
\* registry holds every open session under its own id (registering or
\* closing another session never replaces or removes the entry), and a POST
\* /messages with the id of an open session is dispatched, also after
\* another session was closed.
C11_Sessions ==
  /\ [](\A i \in OpenChans :
          /\ Lookup(transports, chans[i].id) = i
          /\ \A j \in OpenChans : i # j => chans[i].id # chans[j].id)
  /\ [][\A i \in OpenChans :
          (Posted /\ httpResp'.sid = chans[i].id) => DispatchedFor(i)]_vars

\* session 1 was closed, session 2 is open and registered, and a command
\* posted with the id of session 2 after that was dispatched and has run
C11_Witness ==
  /\ Len(chans) = 2
  /\ chans[1].st = "closed" /\ chans[2].st = "open"
  /\ chans[1].posted = 0
  /\ Lookup(transports, chans[2].id) = 2
  /\ httpResp.sid = chans[2].id /\ httpResp.status = 202
  /\ owner = Tag(2, 1)
  /\ O.st = "done" /\ O.req.tool = "load_rom" /\ romLoaded

\* C12: a POST /messages that names a session id that is not in the registry
\* is answered 404 'Session not found'; no command is started or kept for
\* later, no engine operation is performed, and the registry, the channels
\* and the emulator stay as they were.
C12_Original ==
  [][(Posted /\ httpResp'.sid # NoSessionId /\ httpResp'.sid \notin DOMAIN transports) =>
       /\ httpResp'.status = 404
       /\ httpResp'.body = "Session not found"
       /\ UNCHANGED <<romLoaded, romPath, gameboy, slots, cur, lastShot,
                      chans, transports, connected, owner>>]_vars

\* C13: the registry holds exactly the sessions whose channel is being
\* established or was established, and has not been closed and has not
\* failed.
C13_Original ==
  DOMAIN transports =
    {chans[i].id : i \in {j \in DOMAIN chans : chans[j].st \in {"connecting", "open"}}}

\* C14: a response is delivered only on the channel of the session the
\* command was posted with.
C14_Original ==
  \A i \in DOMAIN chans : \A k \in DOMAIN chans[i].out : chans[i].out[k].from = i

\* C15: the N-th response on a channel is the response to the N-th command
\* of that channel.
C15_Original ==
  \A i \in DOMAIN chans : \A k \in DOMAIN chans[i].out : chans[i].out[k] = Tag(i, k)

\* ===================================================================
\* Errors and envelopes.
\* ===================================================================
IsApi(s) == s.req.chan = "api"

\* {content: [...]} with no error, or {error: string} with a 4xx/5xx status
Envelope(resp) ==
  \/ resp.status = 200 /\ resp.content # <<>> /\ resp.error = <<>>
  \/ resp.status \in {400, 500} /\ resp.content = <<>> /\ resp.error # <<>>

\* C17: every POST /api/tool request gets to its response (under LiveSpec:
\* the runtime runs the handler to its end), whatever its body; the response
\* is a success envelope or a structured error with status 400 or 500; it
\* is sent once (what is recorded as the response changes only when the
\* thread is free and another command starts); no exception escapes the
\* handler, and the server goes on.  The handler reads the body and logs
\* the tool before its try block, and a tool with no primitive value
\* throws there.
C17_Original ==
  /\ ((IsApi(O) /\ O.st # "done") ~> (IsApi(O) /\ O.st = "done"))
  /\ []((IsApi(O) /\ O.st = "done") => (Envelope(O.resp) /\ cur # Observed))
  /\ []((IsApi(O) /\ O.st = "running") => O.resp = NoResp)
  /\ [](IsApi(O) => (O.st \notin {"unanswered", "crashed", "failed"} /\ Up))
  /\ [][(IsApi(O) /\ O.st = "done" /\ slots'[Observed].resp # O.resp) =>
          (cur = 0 /\ slots'[Observed].pre \in {TheEmu, Idle.pre})]_vars

\* C16: a command during which the engine raised returns an error, and the
\* emulator (loaded, path, frames stepped) is as it was before the command.
C16_Original ==
  (Done /\ O.fault) => (O.resp.error # <<>> /\ TheEmu = O.pre)

\* ===================================================================
\* The status query.
\* ===================================================================
IsStatus(req) == req.chan = "status"

\* what GET /api/status reports of an emulator
Status(e) == [romLoaded |-> e.romLoaded, romPath |-> e.romPath]

\* C18: after a successful load of a path the status query reports that
\* path as loaded, a load that fails leaves what it reports unchanged, and
\* the query itself answers in every state with the emulator's loaded flag
\* and path and changes nothing.
C18_Original ==
  /\ (Done /\ IsLoad(O.req) /\ Succeeded) =>
       Status(TheEmu) = [romLoaded |-> TRUE, romPath |-> O.req.romPath]
  /\ (Done /\ IsLoad(O.req) /\ ~Succeeded) => Status(TheEmu) = Status(O.pre)
  /\ (Done /\ IsStatus(O.req)) =>
       (O.resp.status = 200 /\ O.resp.content = <<Status(O.pre)>> /\ TheEmu = O.pre)

\* ===================================================================
\* The two registries of commands.
\* ===================================================================
\* a program run to its end, or to its first exception, on the emulator e
\* with an engine that does not fail
RECURSIVE RunProg(_, _, _)
RunProg(prog, e, trace) ==
  IF prog = <<>> THEN [e |-> e, trace |-> trace]
  ELSE LET x == Exec(Head(prog), e, FALSE)
       IN  IF x.thrown # "" THEN [e |-> x.e, trace |-> trace \o x.ev]
           ELSE RunProg(Tail(prog), x.e, trace \o x.ev)

\* the frame steps a handler makes on the emulator e and the status it leaves
Outcome(d, e) ==
  IF d.reply # NoResp THEN [frames |-> <<>>, status |-> Status(e)]
  ELSE LET x == RunProg(d.prog, e, <<>>)
       IN  [frames |-> FrameEvents(x.trace), status |-> Status(x.e)]

\* C19: a press_<button> or load_rom command that POST /api/tool has carried
\* out made the frame steps, with the keys, and left the loaded flag and the
\* path, that the MCP tool of the same name makes and leaves when called
\* with the same parameters (no duration, or a whole positive one) on the
\* same emulator.
C19_Original ==
  (Done /\ IsApi(O) /\ ~O.fault /\ O.req.tool \in McpPressNames \cup {"load_rom"}
   /\ (O.req.dur = NoDur \/ (IsWhole(O.req.dur) /\ O.req.dur.h > 0))) =>
    [frames |-> FrameEvents(O.trace), status |-> Status(TheEmu)]
      = Outcome(McpTool([O.req EXCEPT !.chan = "mcp"]), O.pre)

\* ===================================================================
\* Unknown commands.
\* ===================================================================
\* a tool name that is no command of POST /api/tool: not get_screen,
\* load_rom or wait_frames, and not press_ followed by the name of a button
UnknownTool(req) ==
  /\ req.tool \notin {Undefined, "", "get_screen", "load_rom", "wait_frames"}
  /\ ~ApiPress(req)

\* the error the handler has for such a name
UnknownReply(tool) ==
  IF tool \in PressNames
    THEN Reply(400, <<"Invalid button", ToUpperCase(ReplacePress(tool))>>)
    ELSE Reply(400, <<"Unknown tool", tool>>)

\* C20: an unknown tool name is answered with the unknown-command error in
\* every emulator state, and no engine operation is performed.  The handler
\* tests isRomLoaded before it resolves the name, so with no ROM loaded the
\* answer is 'No ROM loaded'; and a name that is no string ends in the
\* catch block.
C20_Original ==
  (Done /\ IsApi(O) /\ UnknownTool(O.req)) =>
    (O.resp = UnknownReply(O.req.tool) /\ O.trace = <<>>)

\* ===================================================================
\* Parameters.
\* ===================================================================
\* a press_<button> or wait_frames command of POST /api/tool
TakesDuration(req) == ApiPress(req) \/ (req.chan = "api" /\ req.tool = "wait_frames")

\* a duration_frames that was sent and is no positive integer
NotPositiveInteger(d) == d # NoDur /\ ~IsWhole(d)

\* the errors the handler has for a parameter
InvalidParameter(resp) ==
  resp \in {Reply(400, <<"Invalid duration_frames">>),
            Reply(400, <<"Invalid duration_frames for press">>),
            Reply(400, <<"ROM path is required">>)}

\* C21: with a ROM loaded, a press_<button> or wait_frames command of POST
\* /api/tool whose duration_frames is no positive integer is answered with
\* the invalid-parameter error and performs no engine operation (the engine
\* not failing).
C21_Original ==
  (Done /\ TakesDuration(O.req) /\ NotPositiveInteger(O.req.dur) /\ O.pre.romLoaded
   /\ ~O.fault) =>
    (InvalidParameter(O.resp) /\ O.trace = <<>>)

\* a command of POST /api/tool with its required parameter left out
MissingRequired(req) ==
  /\ req.chan = "api"
  /\ \/ req.tool = "wait_frames" /\ req.dur = NoDur
     \/ req.tool = "load_rom" /\ NoRomPath(req.romPath)

\* C22: a command that leaves out its required parameter (wait_frames with
\* no duration_frames, on a loaded ROM; load_rom with no ROM path) is
\* answered with the invalid-parameter error and performs no engine
\* operation.
C22_Original ==
  (Done /\ MissingRequired(O.req) /\ ~O.fault
   /\ (O.req.tool = "wait_frames" => O.pre.romLoaded)) =>
    (InvalidParameter(O.resp) /\ O.trace = <<>>)

\* ---------------------------------------------------------------- C23
\* a tool call, on the MCP server or on POST /api/tool
ToolCall(req) == req.chan \in {"api", "mcp"}

\* the loads among the engine events of a command
IsLoadEvent(e) == e.op = "loadRom"
LoadEvents(trace) == SelectSeq(trace, IsLoadEvent)

\* the engine after every engine event of the command: the ROM of its last
\* load, or the one it started on, and every frame it stepped
Reached ==
  LET loads == LoadEvents(O.trace)
  IN  [rom |-> IF loads = <<>> THEN O.pre.gameboy.rom ELSE loads[Len(loads)].arg,
       frames |-> O.pre.gameboy.frames + Len(FrameEvents(O.trace))]

\* C23: a tool call that succeeds returns exactly one image, read after every
\* other engine event of the call, and the image is the screen of the engine
\* after all the steps the call performed.
C23_OneScreen ==
  (Done /\ ToolCall(O.req) /\ Succeeded) =>
     /\ Len(O.resp.content) = 1
     /\ ScreenLast
     /\ O.resp.content[1] = Snapshot(Reached)

\* an MCP press and a press of three frames on POST /api/tool
C23_Witness ==
  /\ Done /\ ToolCall(O.req) /\ Succeeded
  /\ \/ O.req.chan = "mcp" /\ O.req.tool \in McpPressNames
     \/ O.req.chan = "api" /\ O.req.tool = "press_b" /\ O.req.dur = Whole(3)
  /\ Len(FrameEvents(O.trace)) >= 1
  /\ O.resp.content = <<Snapshot(Reached)>>

\* ---------------------------------------------------------------- C24
\* the keys a command pressed, in order
IsKey(e) == e.op = "doFrame" /\ e.arg # ""
Keys(trace) == [i \in DOMAIN SelectSeq(trace, IsKey) |-> SelectSeq(trace, IsKey)[i].arg]

\* the press command of button b: its MCP tool, or one of its names on POST
\* /api/tool with a duration the handler takes
PressOf(req, b) ==
  \/ req.chan = "mcp" /\ req.tool = "press_" \o ToLowerCase(b)
  \/ /\ req.chan = "api" /\ req.tool \in PressNames
     /\ ToUpperCase(ReplacePress(req.tool)) = b
     /\ ~InvalidDuration(OrDefault(req.dur, DefaultPressFrames))

\* C24: the MCP server registers one press tool per button, the eight names
\* press_up .. press_select; a press command presses its own button, once,
\* and no other key; and POST /api/tool takes press_<x> when the upper-cased
\* x is one of the eight buttons and answers 'Invalid button' with no engine
\* operation when it is not.
C24_Buttons ==
  /\ McpPressNames = {"press_up", "press_down", "press_left", "press_right",
                      "press_a", "press_b", "press_start", "press_select"}
  /\ Cardinality(McpPressNames) = Cardinality(GameBoyButton)
  /\ (Done /\ O.pre.romLoaded /\ ~O.fault) =>
        \A b \in GameBoyButton : PressOf(O.req, b) => Keys(O.trace) = <<b>>
  /\ (Done /\ O.req.chan = "api" /\ O.req.tool \in PressNames /\ O.pre.romLoaded) =>
        LET x == ToUpperCase(ReplacePress(O.req.tool))
        IN  /\ (O.resp = Reply(400, <<"Invalid button", x>>)) <=> (x \notin GameBoyButton)
            /\ (x \notin GameBoyButton) => O.trace = <<>>

\* press_Up on POST /api/tool has pressed UP
C24_Witness ==
  /\ Done /\ O.req.chan = "api" /\ O.req.tool = "press_Up" /\ Succeeded
  /\ Keys(O.trace) = <<"UP">>

\* ---------------------------------------------------------------- C27
\* the operation the running command performs next
NextOp == IF cur # 0 /\ slots[cur].prog # <<>> THEN Head(slots[cur].prog) ELSE Op("", "", "")

\* C27: loaded and the path change only in the step of a load whose engine
\* loadRom call succeeds, which sets loaded and records the path it was
\* given; and no step sets loaded back to false.
C27_OnlyLoads ==
  [][/\ (romLoaded' # romLoaded \/ romPath' # romPath) =>
          /\ NextOp.op = "loadRom"
          /\ FileKind(NextOp.arg) = "rom"
          /\ romLoaded' /\ romPath' = NextOp.arg
          /\ gameboy'.rom = NextOp.arg
     /\ romLoaded => romLoaded']_vars

\* a load of a file that cannot be read, over a loaded ROM, has failed and
\* left the ROM loaded
C27_Witness ==
  /\ Done /\ IsLoad(O.req) /\ FileKind(O.req.romPath) = "unreadable" /\ ~Succeeded
  /\ O.pre.romLoaded /\ romLoaded /\ romPath = O.pre.romPath

\* ---------------------------------------------------------------- C28
\* C28: the path is defined exactly when a ROM is loaded, and it is then the
\* path of the ROM the engine holds, the one of the last load whose engine
\* loadRom call succeeded.
C28_PathOfLoaded ==
  /\ (romPath # Undefined) <=> romLoaded
  /\ romLoaded => romPath = gameboy.rom
  /\ (cur = Observed /\ LoadEvents(O.trace) # <<>>) =>
        romPath = LoadEvents(O.trace)[Len(LoadEvents(O.trace))].arg

\* a load of a missing file after a load that succeeded
C28_Witness ==
  /\ Done /\ IsLoad(O.req) /\ FileKind(O.req.romPath) = "missing" /\ ~Succeeded
  /\ romLoaded /\ romPath \in Paths /\ romPath = gameboy.rom
  /\ romPath # O.req.romPath

\* ---------------------------------------------------------------- C25
\* the start-up cannot serve: no ROM_PATH, no ROM file under that name, or
\* the engine raised in the initial load
StartUpFails ==
  NoRomPath(stdio.env) \/ FileKind(stdio.env) # "rom" \/ stdio.fault

\* C25: the stdio transport is connected only when ROM_PATH names a ROM and
\* the initial load has succeeded; when ROM_PATH was unset, named no file, or
\* the initial load failed, a start-up that has ended has logged an error
\* and exited with status 1, the transport never connected and never
\* started; and every exit is one with status 1, an error logged and the
\* transport not connected.
C25_StartUp ==
  /\ stdio.connected => (~StartUpFails /\ romLoaded /\ stdio.exit = NoExit)
  /\ (StartUpFails /\ stdio.pc \in {"exited", "running"}) =>
        (stdio.exit = 1 /\ stdio.logged # "" /\ ~stdio.connected)
  /\ StartUpFails => stdio.pc \notin {"connecting", "running"}
  /\ stdio.pc = "running" => stdio.connected
  /\ stdio.pc \in {"connecting", "running"} => romLoaded
  /\ stdio.pc = "exited" <=> stdio.exit = 1
  /\ stdio.exit = 1 => (~stdio.connected /\ stdio.logged # "")

\* the engine raised in the warm-up frames of the initial load
C25_Witness ==
  /\ stdio.pc = "exited" /\ stdio.exit = 1 /\ ~stdio.connected
  /\ stdio.fault /\ romLoaded /\ romPath = stdio.env

\* ---------------------------------------------------------------- C26
\* the names of FileNames that end in .gb or .gbc
RomNames == {<<"a", ".", "g", "b">>, <<"b", ".", "g", "b", "c">>, <<".", "g", "b">>}

Listed(resp) == {resp.body[i].name : i \in DOMAIN resp.body}

\* the step is a GET /api/roms in which no call of the file system throws
Lists ==
  /\ roms'.resp # roms.resp
  /\ roms'.resp.route = "/api/roms"
  /\ roms'.threw = ""

\* C26: an answer of GET /api/roms, when it can make and read the
\* directory, is a list, with status 200, of exactly
\* the entries of the roms directory that end in .gb or .gbc, each once and
\* with its path in the directory; it is the empty list when the directory
\* is empty and when it was missing, in which case it has been made; and the
\* request leaves the entries and the emulator as they were.
C26_Listing ==
  [][Lists =>
       /\ roms'.resp.status = 200 /\ roms'.resp.error = ""
       /\ Listed(roms'.resp) = roms.dir \cap RomNames
       /\ Len(roms'.resp.body) = Cardinality(Listed(roms'.resp))
       /\ \A i \in DOMAIN roms'.resp.body :
            roms'.resp.body[i].path = Join(RomsDir, roms'.resp.body[i].name)
       /\ (~roms.exists \/ roms.dir = {}) => roms'.resp.body = <<>>
       /\ roms'.exists /\ roms'.dir = roms.dir
       /\ UNCHANGED coreVars]_vars

\* two ROMs listed of a directory of three entries, with a ROM loaded
C26_Witness ==
  /\ roms.resp.route = "/api/roms" /\ roms.threw = ""
  /\ roms.resp.status = 200 /\ Len(roms.resp.body) = 2
  /\ Cardinality(roms.dir) = 3 /\ Listed(roms.resp) = roms.dir \cap RomNames
  /\ romLoaded

\* ---------------------------------------------------------------- C29
\* C29: in stdio mode the ROM is loaded whenever the HTTP server listens or
\* the transport is connected, every recorded command of a client started on a
\* loaded ROM, and none is answered 'No ROM loaded'.
C29_LoadedInStdio ==
  /\ (stdio.listening \/ stdio.connected) => romLoaded
  /\ (stdio.pc \in {"connecting", "running"} /\ O.st # "idle" /\ O.obs) =>
        /\ O.pre.romLoaded
        /\ O.thrown # "No ROM loaded"
        /\ ErrorOf(O.resp) # "No ROM loaded"

\* after another ROM than the initial one was loaded, a get_screen on the
\* stdio channel has passed its check of the loaded ROM
C29_Witness ==
  /\ stdio.pc = "running" /\ stdio.connected
  /\ Done /\ O.req.chan = "mcpsvc" /\ O.req.tool = "get_screen" /\ O.pre.romLoaded
  /\ O.thrown = NotAFunction("doFrame")
  /\ O.pre.romPath # stdio.env /\ romPath = O.pre.romPath

\* ---------------------------------------------------------------- C30
\* C30: the polling script of an open page has at most one update cycle
\* under way, a fetch or a pending timer.
C30_Original == page.open => Cycles(page) <= 1

\* ---------------------------------------------------------------- C31
\* the endpoint of a poll issued with the checkbox as given
EndpointFor(autoPlay) == IF autoPlay THEN "/api/advance_and_get_screen" ELSE "/screen"

\* C31: a poll the script issues goes to /screen when auto-play is disabled
\* as the poll is issued and to /api/advance_and_get_screen when it is
\* enabled; a poll answered on /screen has stepped no frame and left the
\* emulator as it was, and a poll answered on /api/advance_and_get_screen,
\* with a ROM loaded and the engine not failing, has stepped exactly one.
C31_Polls ==
  [][/\ \A e \in Endpoints :
          page'.fetching[e] > page.fetching[e] => e = EndpointFor(page'.autoPlayEnabled)
     /\ (slots'[Observed].st = "done" /\ slots'[Observed].req.chan = "screen") =>
          /\ slots'[Observed].trace \in {<<>>, <<Ev("getScreen", "")>>}
          /\ gameboy' = slots'[Observed].pre.gameboy
     /\ (/\ slots'[Observed].st = "done" /\ slots'[Observed].req.chan = "advance"
         /\ slots'[Observed].pre.romLoaded /\ ~slots'[Observed].fault) =>
          /\ FrameEvents(slots'[Observed].trace) = <<Ev("doFrame", "")>>
          /\ gameboy'.frames = slots'[Observed].pre.gameboy.frames + 1]_vars

\* with auto-play enabled a poll has advanced one frame, and the next poll is
\* under way
C31_Witness ==
  /\ page.autoPlayEnabled /\ page.fetching["/api/advance_and_get_screen"] >= 1
  /\ page.fetching["/screen"] = 0
  /\ Done /\ O.req.chan = "advance" /\ Succeeded
  /\ gameboy.frames = O.pre.gameboy.frames + 1

\* ---------------------------------------------------------------- C32
\* a press on POST /mcp/tool whose name is not the name of a button
NoSuchButton(req) ==
  /\ req.chan = "mcptool"
  /\ req.tool \in PressNames
  /\ ToUpperCase(ReplacePress(req.tool)) \notin GameBoyButton

\* C32: with a ROM loaded and the engine not failing, POST /mcp/tool with
\* press_<x>, x not one of the eight buttons, is answered with the
\* unknown-tool error and performs no engine operation.
C32_Original ==
  (Done /\ NoSuchButton(O.req) /\ O.pre.romLoaded /\ ~O.fault) =>
    (O.resp = Reply(400, <<"Unknown tool", O.req.tool>>) /\ O.trace = <<>>)
====
